---- MODULE Spec2Model ----
(***************************************************************************)
(* Model of the deduplicate command (worker-pool variant): the two-phase   *)
(* pipeline run -> populateHash -> processHashes over a bounded job        *)
(* channel, the shared hashes map under hashesMutex, copyFile with its     *)
(* hard-link / byte-copy fallback, and the timestamp resolver getFileTime. *)
(***************************************************************************)
EXTENDS Integers, Sequences, FiniteSets, Bags, TLC

(***************************************************************************)
(* Bounds of the model.                                                    *)
(***************************************************************************)
\* workers started by run and capacity of workerJobs (runtime.NumCPU() * 2)
Concurrency == 2
\* regular files present in the source directories when the run starts
MaxFiles == 2
\* I/O calls the environment lets fail during one run
MaxFaults == 1

(***************************************************************************)
(* Characters and strings.  A string is a sequence of one-character        *)
(* strings, so that len(), slicing and byte order are computed.            *)
(***************************************************************************)
DigitChars == <<"0", "1", "2", "3", "4", "5", "6", "7", "8", "9">>

IsDigit(c) == \E i \in 1..Len(DigitChars) : DigitChars[i] = c

DigitVal(c) == (CHOOSE i \in 1..Len(DigitChars) : DigitChars[i] = c) - 1

\* strings.ToLower on the characters file names of the model use
ToLowerChar(c) ==
    CASE c = "J" -> "j"
      [] c = "P" -> "p"
      [] c = "G" -> "g"
      [] c = "T" -> "t"
      [] OTHER -> c

ToLower(s) == [i \in 1..Len(s) |-> ToLowerChar(s[i])]

\* filepath.Ext: the suffix beginning at the final dot, "" when there is none
Ext(name) ==
    LET dots == {i \in 1..Len(name) : name[i] = "."}
    IN  IF dots = {} THEN <<>>
        ELSE LET last == CHOOSE i \in dots : \A j \in dots : j <= i
             IN  SubSeq(name, last, Len(name))

\* the extension allow-list
extensions ==
    { <<".", "j", "p", "g">>, <<".", "g", "i", "f">>, <<".", "p", "n", "g">>,
      <<".", "j", "p", "e", "g">>, <<".", "h", "e", "i", "c">>,
      <<".", "b", "m", "p">>, <<".", "t", "i", "f">>, <<".", "j", "p", "e">>,
      <<".", "r", "a", "w">>, <<".", "m", "p", "4">>, <<".", "m", "o", "v">>,
      <<".", "m", "4", "v">>, <<".", "3", "g", "p">>, <<".", "a", "v", "i">>,
      <<".", "m", "k", "v">>, <<".", "w", "e", "b", "m">>,
      <<".", "f", "l", "v">>, <<".", "w", "m", "v">>, <<".", "m", "p", "g">>,
      <<".", "m", "2", "v">>, <<".", "m", "p", "2">> }

\* strings.ReplaceAll(s, ":", "")
RECURSIVE StripColons(_)
StripColons(s) ==
    IF s = <<>> THEN <<>>
    ELSE IF Head(s) = ":" THEN StripColons(Tail(s))
    ELSE <<Head(s)>> \o StripColons(Tail(s))

(***************************************************************************)
(* Time: time.Parse and Time.Format for the layout "20060102T150405".      *)
(***************************************************************************)
\* the layout, whose length getFileTime compares the base name with
timeFormat ==
    <<"2", "0", "0", "6", "0", "1", "0", "2", "T", "1", "5", "0", "4", "0", "5">>

NoTime == [year |-> -1, month |-> 0, day |-> 0, hour |-> 0, min |-> 0, sec |-> 0]

\* time.Time{}, the zero time
ZeroTime == [year |-> 1, month |-> 1, day |-> 1, hour |-> 0, min |-> 0, sec |-> 0]

MkTime(y, mo, d, h, mi, s) ==
    [year |-> y, month |-> mo, day |-> d, hour |-> h, min |-> mi, sec |-> s]

RECURSIVE Num(_)
Num(s) == IF s = <<>> THEN 0 ELSE Num(SubSeq(s, 1, Len(s) - 1)) * 10 + DigitVal(s[Len(s)])

AllDigits(s) == \A i \in 1..Len(s) : IsDigit(s[i])

IsLeap(y) == (y % 4 = 0) /\ ((y % 100 # 0) \/ (y % 400 = 0))

DaysIn(mo, y) ==
    IF mo = 2 THEN (IF IsLeap(y) THEN 29 ELSE 28)
    ELSE IF mo \in {4, 6, 9, 11} THEN 30 ELSE 31

\* time.Parse(timeFormat, s): the parsed time, NoTime when parsing fails
ParseTime(s) ==
    IF Len(s) # Len(timeFormat) THEN NoTime
    ELSE IF ~(AllDigits(SubSeq(s, 1, 8)) /\ s[9] = "T" /\ AllDigits(SubSeq(s, 10, 15)))
    THEN NoTime
    ELSE LET y  == Num(SubSeq(s, 1, 4))
             mo == Num(SubSeq(s, 5, 6))
             d  == Num(SubSeq(s, 7, 8))
             h  == Num(SubSeq(s, 10, 11))
             mi == Num(SubSeq(s, 12, 13))
             sc == Num(SubSeq(s, 14, 15))
         IN  IF /\ mo \in 1..12
                /\ d >= 1 /\ d <= DaysIn(mo, y)
                /\ h < 24 /\ mi < 60 /\ sc < 60
             THEN MkTime(y, mo, d, h, mi, sc)
             ELSE NoTime

RECURSIVE Digits(_)
Digits(n) == IF n < 10 THEN <<DigitChars[n + 1]>> ELSE Digits(n \div 10) \o <<DigitChars[(n % 10) + 1]>>

RECURSIVE Pad(_, _)
Pad(s, w) == IF Len(s) >= w THEN s ELSE Pad(<<"0">> \o s, w)

\* t.Format(timeFormat)
FormatTime(t) ==
    Pad(Digits(t.year), 4) \o Pad(Digits(t.month), 2) \o Pad(Digits(t.day), 2)
      \o <<"T">> \o Pad(Digits(t.hour), 2) \o Pad(Digits(t.min), 2) \o Pad(Digits(t.sec), 2)

(***************************************************************************)
(* The timestamp resolver.                                                 *)
(***************************************************************************)
TimeResult(t, e, inPath) == [time |-> t, err |-> e, timeInPath |-> inPath]

\* a resolver that would open the file before it looks at the name
getFileTimeOpenFirst(fileName, openOK, exif, statOK, birth, mod, fstatOK) ==
    IF ~openOK THEN TimeResult(ZeroTime, TRUE, FALSE)
    ELSE IF /\ Len(fileName) > Len(timeFormat)
            /\ ParseTime(SubSeq(fileName, 1, Len(timeFormat))) # NoTime
    THEN TimeResult(ParseTime(SubSeq(fileName, 1, Len(timeFormat))), FALSE, TRUE)
    ELSE IF exif # NoTime THEN TimeResult(exif, FALSE, FALSE)
    ELSE IF statOK THEN TimeResult(IF birth # NoTime THEN birth ELSE mod, FALSE, FALSE)
    ELSE IF fstatOK THEN TimeResult(mod, FALSE, FALSE)
    ELSE TimeResult(ZeroTime, TRUE, FALSE)

\* getFileTime on a base name and what the calls on the file return:
\*   openOK   os.Open succeeds          exif    exif.Decode + DateTime (NoTime: none)
\*   statOK   times.Stat succeeds       birth   BirthTime (NoTime: HasBirthTime false)
\*   fstatOK  file.Stat succeeds        mod     ModTime
getFileTime(fileName, openOK, exif, statOK, birth, mod, fstatOK) ==
    IF /\ Len(fileName) > Len(timeFormat)
       /\ ParseTime(SubSeq(fileName, 1, Len(timeFormat))) # NoTime
    THEN TimeResult(ParseTime(SubSeq(fileName, 1, Len(timeFormat))), FALSE, TRUE)
    ELSE IF ~openOK THEN TimeResult(ZeroTime, TRUE, FALSE)
    ELSE IF exif # NoTime THEN TimeResult(exif, FALSE, FALSE)
    ELSE IF statOK THEN TimeResult(IF birth # NoTime THEN birth ELSE mod, FALSE, FALSE)
    ELSE IF fstatOK THEN TimeResult(mod, FALSE, FALSE)
    ELSE TimeResult(ZeroTime, TRUE, FALSE)

\* the destination file name processHashes builds from the resolver's answer;
\* now is time.Now(), used when the resolver returned an error
destFileName(base, renameOn, r, now) ==
    IF renameOn
    THEN IF r.timeInPath THEN base
         ELSE StripColons(FormatTime(IF r.err THEN now ELSE r.time) \o <<" ">> \o base)
    ELSE base

(***************************************************************************)
(* Paths, directory entries and inodes.                                    *)
(***************************************************************************)
\* fifteen characters: a time in the layout, and strings that are not one
Stamp == <<"2", "0", "2", "0", "0", "1", "0", "2", "T", "0", "3", "0", "4", "0", "5">>

StampBadMonth == <<"2", "0", "2", "0", "1", "3", "0", "2", "T", "0", "3", "0", "4", "0", "5">>

StampBadDay == <<"2", "0", "2", "1", "0", "2", "2", "9", "T", "0", "3", "0", "4", "0", "5">>

StampBadHour == <<"2", "0", "2", "0", "0", "1", "0", "2", "T", "2", "4", "0", "4", "0", "5">>

StampNoT == <<"2", "0", "2", "0", "0", "1", "0", "2", " ", "0", "3", "0", "4", "0", "5">>

StampLeap == <<"2", "0", "2", "0", "0", "2", "2", "9", "T", "2", "3", "5", "9", "5", "9">>

\* the file names of the model: a.jpg, "20200102T030405 b.JPG" (a name a former
\* run with rename produced), n.txt (not a media file), sub.jpg (a directory)
NameA == <<"a", ".", "j", "p", "g">>
NameB == Stamp \o <<" ", "b", ".", "J", "P", "G">>
NameTxt == <<"n", ".", "t", "x", "t">>
NameSub == <<"s", "u", "b", ".", "j", "p", "g">>

\* the directories run keeps after its os.Stat / IsDir checks
folders == <<"s1", "s2">>

\* byte order of the characters, for ReadDir's sort by file name
CharOrder ==
    <<" ", ".", "0", "1", "2", "3", "4", "5", "6", "7", "8", "9", ":",
      "G", "J", "P", "T", "a", "b", "g", "j", "n", "p", "s", "t", "u", "x">>

Code(c) == CHOOSE i \in 1..Len(CharOrder) : CharOrder[i] = c

RECURSIVE NameLess(_, _)
NameLess(a, b) ==
    IF a = <<>> THEN b # <<>>
    ELSE IF b = <<>> THEN FALSE
    ELSE IF Head(a) = Head(b) THEN NameLess(Tail(a), Tail(b))
    ELSE Code(Head(a)) < Code(Head(b))

\* filepath.Clean(filepath.Join(dir, name)) of a clean directory and a base name
Join(dir, name) == <<dir, name>>

\* filepath.Base
Base(path) == path[2]

NoPath == <<"", <<>>>>

Contents == {0, 1}

\* the capture time exif.Decode finds in a file's bytes (content 0 is the empty file)
ExifOf(content) == IF content = 1 THEN MkTime(2019, 12, 31, 23, 59, 58) ELSE NoTime

ModTimeOf == MkTime(2021, 6, 7, 8, 9, 10)

\* times.Stat: the filesystem of s1 records birth times, the others do not
BirthTimeOf(dir) == IF dir = "s1" THEN MkTime(2020, 2, 29, 1, 2, 3) ELSE NoTime

\* time.Now() values
NowTimes == {MkTime(2026, 1, 1, 0, 0, 0), MkTime(2026, 1, 1, 0, 0, 1)}

\* sha512.Sum512 printed with %x: injective on the contents of the model
Digest(data) == <<"sha512", data>>

VARIABLES
    rename, move, simulate,   \* the flags
    dest,                     \* the destination directory
    crossVolume,              \* os.Link from another directory into dest fails
    dirent, inodes,           \* the filesystem: path -> inode, inode -> file
    orig,                     \* the filesystem when the run started
    pc, todo, ranged,         \* run / populateHash / processHashes
    queue, closed,            \* the channel workerJobs
    wk,                       \* the goroutines of worker(): a bag of their local states
    hashes, hashesMutex,
    collisions, copyErrors, removeErrors,
    wgHash, wgMat,            \* the two sync.WaitGroup counters
    faults, readFailed,       \* failed I/O calls so far, paths ReadFile failed on
    runs,                     \* job -> number of times a worker called it
    outcome,                  \* materialization job -> how it ended
    crashed, panicked,        \* the process died of a panic, the jobs that panicked
    tIn, tOut                 \* a stand-alone call of getFileTime and its result

pvars == <<rename, move, simulate, dest, crossVolume, dirent, inodes, orig,
           pc, todo, ranged, queue, closed, wk, hashes, hashesMutex,
           collisions, copyErrors, removeErrors, wgHash, wgMat,
           faults, readFailed, runs, outcome, crashed, panicked>>

tvars == <<tIn, tOut>>

vars == <<pvars, tvars>>

Exists(path) == path \in DOMAIN dirent

IsRegular(path) == inodes[dirent[path]].kind = "file"

NLink(fs, ino) == Cardinality({p \in DOMAIN fs : fs[p] = ino})

ContentAt(path) == inodes[dirent[path]].content

\* ioutil.ReadDir: the names in dir, sorted by file name
RECURSIVE SortNames(_)
SortNames(S) ==
    IF S = {} THEN <<>>
    ELSE LET m == CHOOSE x \in S : \A y \in S \ {x} : NameLess(x, y)
         IN  <<m>> \o SortNames(S \ {m})

ReadDir(fs, dir) == SortNames({p[2] : p \in {q \in DOMAIN fs : q[1] = dir}})

\* the extension test of populateHash
Eligible(name) == ToLower(Ext(name)) \in extensions

RECURSIVE EligibleIn(_, _, _, _)
EligibleIn(fs, ino, dir, names) ==
    IF names = <<>> THEN <<>>
    ELSE (IF ino[fs[Join(dir, Head(names))]].kind # "dir" /\ Eligible(Head(names))
          THEN <<Join(dir, Head(names))>> ELSE <<>>)
         \o EligibleIn(fs, ino, dir, Tail(names))

\* the files populateHash submits, in its order: folder by folder, name by name
RECURSIVE WorkList(_, _, _)
WorkList(fs, ino, dirs) ==
    IF dirs = <<>> THEN <<>>
    ELSE EligibleIn(fs, ino, Head(dirs), ReadDir(fs, Head(dirs)))
         \o WorkList(fs, ino, Tail(dirs))

(***************************************************************************)
(* The states a run can start in.                                          *)
(***************************************************************************)
\* where the media files of the source directories can be
SrcSlots == {Join("s1", NameA), Join("s1", NameB), Join("s2", NameA)}

\* inode numbers of the files present at the start
InoOf(path) ==
    CASE path = Join("s1", NameA) -> 1
      [] path = Join("s1", NameB) -> 2
      [] path = Join("s2", NameA) -> 3
      [] path = Join("d", NameA) -> 4
      [] path = Join("s1", NameTxt) -> 5
      [] path = Join("s1", NameSub) -> 6

File(content) == [kind |-> "file", content |-> content]

Directory == [kind |-> "dir", content |-> 0]

\* what the destination directory "d" holds under the name a.jpg at the start:
\* nothing, a file of its own, a directory, or a hard link to a source file
DestPre(S) ==
    {[t |-> "none", c |-> 0, to |-> NoPath], [t |-> "dir", c |-> 0, to |-> NoPath]}
      \cup {[t |-> "file", c |-> 1, to |-> NoPath]}
      \cup {[t |-> "link", c |-> 0, to |-> q] : q \in S}

NoPre == [t |-> "none", c |-> 0, to |-> NoPath]

InitDirent(S, pre) ==
    LET P == S \cup {Join("s1", NameTxt), Join("s1", NameSub)}
                \cup (IF pre.t = "none" THEN {} ELSE {Join("d", NameA)})
    IN  [q \in P |-> IF q = Join("d", NameA) /\ pre.t = "link" THEN InoOf(pre.to)
                     ELSE InoOf(q)]

InitInodes(S, c, pre) ==
    [i \in 1..6 |->
        IF i = 6 THEN Directory
        ELSE IF i = 5 THEN File(1)
        ELSE IF i = 4 THEN (IF pre.t = "dir" THEN Directory ELSE File(pre.c))
        ELSE IF \E q \in S : InoOf(q) = i
             THEN File(c[CHOOSE q \in S : InoOf(q) = i])
             ELSE File(0)]

NoJob == [kind |-> "none", path |-> NoPath]

HashJob(path) == [kind |-> "hash", path |-> path]

MatJob(path) == [kind |-> "mat", path |-> path]

\* a goroutine of worker() blocked on the channel, with the locals of no job
IdleWorker ==
    [pc |-> "idle", job |-> NoJob, data |-> 0, ok |-> FALSE,
     dst |-> NoPath, same |-> FALSE, inF |-> 0, outF |-> 0]

NoCall == [name |-> <<>>, openOK |-> FALSE, exif |-> NoTime, statOK |-> FALSE,
           birth |-> NoTime, mod |-> NoTime, fstatOK |-> FALSE]

NoResult == TimeResult(NoTime, FALSE, FALSE)

InitRun ==
    /\ pc = "populate"
    /\ ranged = {}
    /\ queue = <<>>
    /\ closed = FALSE
    /\ wk = [g \in {IdleWorker} |-> Concurrency]
    /\ hashes = <<>>
    /\ hashesMutex = 0
    /\ collisions = 0
    /\ copyErrors = 0
    /\ removeErrors = 0
    /\ wgHash = 0
    /\ wgMat = 0
    /\ faults = 0
    /\ readFailed = {}
    /\ runs = <<>>
    /\ outcome = <<>>
    /\ crashed = FALSE
    /\ panicked = {}

Init ==
    /\ rename \in BOOLEAN
    /\ move \in BOOLEAN
    /\ simulate \in BOOLEAN
    /\ dest \in {"d", "s2"}
    /\ crossVolume \in BOOLEAN
    /\ \E S \in SUBSET SrcSlots :
         \E c \in [S -> Contents] :
           \E pre \in (IF dest = "d" THEN DestPre(S) ELSE {NoPre}) :
             /\ Cardinality(S) <= MaxFiles
             /\ dirent = InitDirent(S, pre)
             /\ inodes = InitInodes(S, c, pre)
    /\ orig = [dirent |-> dirent, inodes |-> inodes]
    /\ todo = WorkList(dirent, inodes, folders)
    /\ InitRun
    /\ tIn = NoCall
    /\ tOut = NoResult

(***************************************************************************)
(* The coordinator: run, populateHash, processHashes.                      *)
(***************************************************************************)
Alive == ~crashed

\* a send that would never block
CanSendAlways == TRUE

\* workerJobs <- job can proceed: the buffer has room
CanSend == Len(queue) < Concurrency

cvars == <<rename, move, simulate, dest, crossVolume, orig, tIn, tOut>>

\* a loop of populateHash that would send the job without wg.Add(1)
SubmitHashNoAdd ==
    /\ Alive
    /\ pc = "populate"
    /\ todo # <<>>
    /\ CanSend
    /\ wgHash' = wgHash
    /\ queue' = Append(queue, HashJob(Head(todo)))
    /\ runs' = runs @@ (HashJob(Head(todo)) :> 0)
    /\ todo' = Tail(todo)
    /\ UNCHANGED <<cvars, dirent, inodes, pc, ranged, closed, wk, hashes, hashesMutex,
                   collisions, copyErrors, removeErrors, wgMat, faults, readFailed,
                   outcome, crashed, panicked>>

\* populateHash, one turn of its loop: wg.Add(1); workerJobs <- job
SubmitHash ==
    /\ Alive
    /\ pc = "populate"
    /\ todo # <<>>
    /\ CanSend
    /\ wgHash' = wgHash + 1
    /\ queue' = Append(queue, HashJob(Head(todo)))
    /\ runs' = runs @@ (HashJob(Head(todo)) :> 0)
    /\ todo' = Tail(todo)
    /\ UNCHANGED <<cvars, dirent, inodes, pc, ranged, closed, wk, hashes, hashesMutex,
                   collisions, copyErrors, removeErrors, wgMat, faults, readFailed,
                   outcome, crashed, panicked>>

\* a wg.Wait() that would return at once
HashWaitDoneNoWait == TRUE

\* wg.Wait() of populateHash returns
HashWaitDone == wgHash = 0

\* populateHash: the loop is over and wg.Wait() returns; run goes on to processHashes
HashBarrier ==
    /\ Alive
    /\ pc = "populate"
    /\ todo = <<>>
    /\ HashWaitDone
    /\ pc' = "process"
    /\ UNCHANGED <<cvars, dirent, inodes, todo, ranged, queue, closed, wk, hashes,
                   hashesMutex, collisions, copyErrors, removeErrors, wgHash, wgMat,
                   faults, readFailed, runs, outcome, crashed, panicked>>

\* processHashes, one turn of "for _, v := range hashes" (in any order):
\* wg.Add(1); workerJobs <- func() {...}
SubmitMat ==
    /\ Alive
    /\ pc = "process"
    /\ CanSend
    /\ \E h \in DOMAIN hashes \ ranged :
         /\ ranged' = ranged \cup {h}
         /\ queue' = Append(queue, MatJob(hashes[h]))
         /\ runs' = runs @@ (MatJob(hashes[h]) :> 0)
    /\ wgMat' = wgMat + 1
    /\ UNCHANGED <<cvars, dirent, inodes, pc, todo, closed, wk, hashes, hashesMutex,
                   collisions, copyErrors, removeErrors, wgHash, faults, readFailed,
                   outcome, crashed, panicked>>

\* a wg.Wait() of processHashes that would return at once
MatWaitDoneNoWait == TRUE

\* wg.Wait() of processHashes returns
MatWaitDone == wgMat = 0

\* processHashes: the range is over and wg.Wait() returns
MatBarrier ==
    /\ Alive
    /\ pc = "process"
    /\ ranged = DOMAIN hashes
    /\ MatWaitDone
    /\ pc' = "close"
    /\ UNCHANGED <<cvars, dirent, inodes, todo, ranged, queue, closed, wk, hashes,
                   hashesMutex, collisions, copyErrors, removeErrors, wgHash, wgMat,
                   faults, readFailed, runs, outcome, crashed, panicked>>

\* run: close(workerJobs), then the summary is printed
CloseQueue ==
    /\ Alive
    /\ pc = "close"
    /\ closed' = TRUE
    /\ pc' = "done"
    /\ UNCHANGED <<cvars, dirent, inodes, todo, ranged, queue, wk, hashes, hashesMutex,
                   collisions, copyErrors, removeErrors, wgHash, wgMat, faults,
                   readFailed, runs, outcome, crashed, panicked>>

(***************************************************************************)
(* The workers and the hashing job processFileHash.                        *)
(***************************************************************************)
CanFault == faults < MaxFaults

\* a receive that would leave the job in the channel
DequeueKeep(q) == q

\* what is left in the channel after a receive
Dequeue(q) == Tail(q)

\* The goroutines of worker() carry no identity the jobs can see (the id
\* parameter is unused): wk is the bag of their local states.  One of the
\* goroutines in local state g goes on in local state e.
Put(g, e) == (wk (-) SetToBag({g})) (+) SetToBag({e})

\* worker: job, ok := <-workerJobs; job().  A hashing job begins with
\* ioutil.ReadFile and sha512.Sum512: a failed read is printed and the job goes
\* on with data = nil, the empty content.
Receive(g) ==
    /\ Alive
    /\ g.pc = "idle"
    /\ queue # <<>>
    /\ LET job == Head(queue)
       IN  /\ queue' = Dequeue(queue)
           /\ runs' = [runs EXCEPT ![job] = @ + 1]
           /\ IF job.kind = "hash"
              THEN \/ /\ Exists(job.path) /\ IsRegular(job.path)
                      /\ wk' = Put(g, [IdleWorker EXCEPT
                                  !.pc = "lock", !.job = job,
                                  !.data = ContentAt(job.path)])
                      /\ UNCHANGED <<faults, readFailed>>
                   \/ /\ CanFault
                      /\ faults' = faults + 1
                      /\ readFailed' = readFailed \cup {job.path}
                      /\ wk' = Put(g, [IdleWorker EXCEPT
                                  !.pc = "lock", !.job = job, !.data = 0])
              ELSE /\ wk' = Put(g, [IdleWorker EXCEPT
                                  !.pc = "name", !.job = job])
                   /\ UNCHANGED <<faults, readFailed>>
    /\ UNCHANGED <<cvars, dirent, inodes, pc, todo, ranged, closed, hashes, hashesMutex,
                   collisions, copyErrors, removeErrors, wgHash, wgMat, outcome,
                   crashed, panicked>>

\* a Lock() that would never block
MutexFreeNoExclusion == TRUE

\* hashesMutex.Lock() can return
MutexFree == hashesMutex = 0

Lock(g) ==
    /\ Alive
    /\ g.pc = "lock"
    /\ MutexFree
    /\ hashesMutex' = 1
    /\ wk' = Put(g, [g EXCEPT !.pc = "check"])
    /\ UNCHANGED <<cvars, dirent, inodes, pc, todo, ranged, queue, closed, hashes,
                   collisions, copyErrors, removeErrors, wgHash, wgMat, faults,
                   readFailed, runs, outcome, crashed, panicked>>

\* current, ok := hashes[strHash]
Check(g) ==
    /\ Alive
    /\ g.pc = "check"
    /\ wk' = Put(g, [g EXCEPT !.pc = "update",
                        !.ok = (Digest(g.data) \in DOMAIN hashes)])
    /\ UNCHANGED <<cvars, dirent, inodes, pc, todo, ranged, queue, closed, hashes,
                   hashesMutex, collisions, copyErrors, removeErrors, wgHash, wgMat,
                   faults, readFailed, runs, outcome, crashed, panicked>>

\* a duplicate that would go uncounted
AddCollisionLost(n) == n

\* the counter after atomic.AddInt64(collisionsCounter, 1)
AddCollision(n) == n + 1

\* the two branches on ok: count a collision, or hashes[strHash] = fPath
Update(g) ==
    /\ Alive
    /\ g.pc = "update"
    /\ IF g.ok
       THEN /\ collisions' = AddCollision(collisions)
            /\ UNCHANGED hashes
       ELSE /\ hashes' = [h \in DOMAIN hashes \cup {Digest(g.data)} |->
                            IF h = Digest(g.data) THEN g.job.path ELSE hashes[h]]
            /\ UNCHANGED collisions
    /\ wk' = Put(g, [g EXCEPT !.pc = "unlock"])
    /\ UNCHANGED <<cvars, dirent, inodes, pc, todo, ranged, queue, closed, hashesMutex,
                   copyErrors, removeErrors, wgHash, wgMat, faults, readFailed, runs,
                   outcome, crashed, panicked>>

\* a job that would return with hashesMutex still held
UnlockKeep(g) ==
    /\ Alive
    /\ g.pc = "unlock"
    /\ wk' = Put(g, [g EXCEPT !.pc = "wgdone"])
    /\ UNCHANGED <<cvars, dirent, inodes, pc, todo, ranged, queue, closed, hashes,
                   hashesMutex, collisions, copyErrors, removeErrors, wgHash, wgMat,
                   faults, readFailed, runs, outcome, crashed, panicked>>

\* the deferred hashesMutex.Unlock(), which runs before the deferred wGroup.Done()
Unlock(g) ==
    /\ Alive
    /\ g.pc = "unlock"
    /\ hashesMutex' = 0
    /\ wk' = Put(g, [g EXCEPT !.pc = "wgdone"])
    /\ UNCHANGED <<cvars, dirent, inodes, pc, todo, ranged, queue, closed, hashes,
                   collisions, copyErrors, removeErrors, wgHash, wgMat, faults,
                   readFailed, runs, outcome, crashed, panicked>>

\* the deferred wGroup.Done() of processFileHash; the worker loops back to the receive
WgDone(g) ==
    /\ Alive
    /\ g.pc = "wgdone"
    /\ wgHash' = wgHash - 1
    /\ wk' = Put(g, IdleWorker)
    /\ UNCHANGED <<cvars, dirent, inodes, pc, todo, ranged, queue, closed, hashes,
                   hashesMutex, collisions, copyErrors, removeErrors, wgMat, faults,
                   readFailed, runs, outcome, crashed, panicked>>

\* worker: the receive reports the channel closed and empty; the goroutine returns
WorkerExit(g) ==
    /\ Alive
    /\ g.pc = "idle"
    /\ closed
    /\ queue = <<>>
    /\ wk' = Put(g, [g EXCEPT !.pc = "exited"])
    /\ UNCHANGED <<cvars, dirent, inodes, pc, todo, ranged, queue, closed, hashes,
                   hashesMutex, collisions, copyErrors, removeErrors, wgHash, wgMat,
                   faults, readFailed, runs, outcome, crashed, panicked>>

(***************************************************************************)
(* The materialization job: the closure of processHashes, copyFile and     *)
(* copyFileContents.                                                       *)
(***************************************************************************)
Outcome(res, dst) == [res |-> res, dst |-> dst]

\* getFileTime(sourceFile) on the filesystem as it is now; openOK is os.Open's answer
ResolveAt(src, openOK) ==
    getFileTime(Base(src), openOK,
                IF Exists(src) /\ IsRegular(src) THEN ExifOf(ContentAt(src)) ELSE NoTime,
                Exists(src),
                BirthTimeOf(src[1]),
                ModTimeOf,
                openOK)

\* destinationFile := filepath.Clean(filepath.Join(dest, destFileName))
DestinationFile(src, r, now) == Join(dest, destFileName(Base(src), rename, r, now))

\* the closure returns: its deferred wg.Done() runs and the worker loops back
\* to the receive
JobReturn(g) ==
    /\ wgMat' = wgMat - 1
    /\ wk' = Put(g, IdleWorker)

\* a closure without the simulate test
SideEffectsSkippedNever == FALSE

\* the test "if simulate" that keeps the job from copyFile and os.Remove
SideEffectsSkipped == simulate

\* a closure without the test of the two path strings
SamePathNever(src, dst) == FALSE

\* the test "if sourceFile == destinationFile" on the two path strings
SamePath(src, dst) == src = dst

\* the job up to its first filesystem call: the destination name, then the
\* "same path" skip, then the simulate branch
NameStep(g) ==
    /\ Alive
    /\ g.pc = "name"
    /\ LET src == g.job.path
       IN  \E openOK \in BOOLEAN :
             /\ openOK => Exists(src)
             /\ ~openOK /\ Exists(src) =>
                  /\ rename
                  /\ ~ResolveAt(src, TRUE).timeInPath
                  /\ CanFault
             /\ ~Exists(src) => rename
             /\ ~rename => openOK
             /\ faults' = IF ~openOK /\ Exists(src) THEN faults + 1 ELSE faults
             /\ LET r == ResolveAt(src, openOK)
                IN  \E now \in (IF rename /\ r.err THEN NowTimes ELSE {ZeroTime}) :
                      LET dst == DestinationFile(src, r, now)
                      IN  IF SamePath(src, dst)
                          THEN /\ outcome' = outcome @@ (g.job :> Outcome("skipped", dst))
                               /\ JobReturn(g)
                          ELSE IF SideEffectsSkipped
                          THEN /\ outcome' = outcome @@ (g.job :> Outcome("simulated", dst))
                               /\ JobReturn(g)
                          ELSE /\ outcome' = outcome
                               /\ wk' = Put(g, [g EXCEPT !.pc = "stat", !.dst = dst])
                               /\ UNCHANGED wgMat
    /\ UNCHANGED <<cvars, dirent, inodes, pc, todo, ranged, queue, closed, hashes,
                   hashesMutex, collisions, copyErrors, removeErrors, wgHash,
                   readFailed, runs, crashed, panicked>>

\* a closure that would go on to os.Remove in move mode whatever copyFile returned
CopyReturnThenRemove(g, err, same) ==
    /\ copyErrors' = IF err THEN copyErrors + 1 ELSE copyErrors
    /\ outcome' = IF err THEN outcome @@ (g.job :> Outcome("copyerr", g.dst))
                  ELSE IF move THEN outcome
                  ELSE outcome @@ (g.job :> Outcome("copied", g.dst))
    /\ IF move
       THEN /\ wk' = Put(g, [g EXCEPT !.pc = "remove", !.same = same,
                               !.inF = 0, !.outF = 0])
            /\ UNCHANGED wgMat
       ELSE JobReturn(g)

\* copyFile has returned err (same: by its os.SameFile return): processHashes
\* counts a copy error, or goes on to os.Remove in move mode, or is done
CopyReturn(g, err, same) ==
    /\ copyErrors' = IF err THEN copyErrors + 1 ELSE copyErrors
    /\ outcome' = IF err THEN outcome @@ (g.job :> Outcome("copyerr", g.dst))
                  ELSE IF move THEN outcome
                  ELSE outcome @@ (g.job :> Outcome("copied", g.dst))
    /\ IF ~err /\ move
       THEN /\ wk' = Put(g, [g EXCEPT !.pc = "remove", !.same = same,
                               !.inF = 0, !.outF = 0])
            /\ UNCHANGED wgMat
       ELSE JobReturn(g)

\* os.SameFile(sfi, dfi): same device and inode
SameFile(src, dst) == dirent[src] = dirent[dst]

\* copyFile: os.Stat(src), os.Stat(dst), the regular-file tests and os.SameFile
StatStep(g) ==
    /\ Alive
    /\ g.pc = "stat"
    /\ LET src == g.job.path
           dst == g.dst
       IN  IF ~Exists(src) \/ ~IsRegular(src) THEN CopyReturn(g, TRUE, FALSE)
           ELSE IF Exists(dst) /\ ~IsRegular(dst) THEN CopyReturn(g, TRUE, FALSE)
           ELSE IF Exists(dst) /\ SameFile(src, dst) THEN CopyReturn(g, FALSE, TRUE)
           ELSE /\ wk' = Put(g, [g EXCEPT !.pc = "link"])
                /\ UNCHANGED <<copyErrors, outcome, wgMat>>
    /\ UNCHANGED <<cvars, dirent, inodes, pc, todo, ranged, queue, closed, hashes,
                   hashesMutex, collisions, removeErrors, wgHash, faults,
                   readFailed, runs, crashed, panicked>>

\* os.Link(src, dst) succeeds
LinkOK(src, dst) ==
    /\ Exists(src)
    /\ ~Exists(dst)
    /\ (src[1] = dst[1] \/ ~crossVolume)

\* copyFile: os.Link, and on its failure the fall through to copyFileContents
LinkStep(g) ==
    /\ Alive
    /\ g.pc = "link"
    /\ LET src == g.job.path
           dst == g.dst
       IN  IF LinkOK(src, dst)
           THEN /\ dirent' = [q \in DOMAIN dirent \cup {dst} |->
                                IF q = dst THEN dirent[src] ELSE dirent[q]]
                /\ CopyReturn(g, FALSE, FALSE)
           ELSE /\ wk' = Put(g, [g EXCEPT !.pc = "create"])
                /\ UNCHANGED <<dirent, copyErrors, outcome, wgMat>>
    /\ UNCHANGED <<cvars, inodes, pc, todo, ranged, queue, closed, hashes,
                   hashesMutex, collisions, removeErrors, wgHash, faults,
                   readFailed, runs, crashed, panicked>>

\* copyFileContents: os.Open(src) and os.Create(dst), which truncates an
\* existing file or makes a new, empty one
CreateStep(g) ==
    /\ Alive
    /\ g.pc = "create"
    /\ LET src == g.job.path
           dst == g.dst
       IN  \/ /\ Exists(src)
              /\ Exists(dst) /\ IsRegular(dst)
              /\ inodes' = [inodes EXCEPT ![dirent[dst]].content = 0]
              /\ wk' = Put(g, [g EXCEPT !.pc = "write", !.inF = dirent[src],
                                  !.outF = dirent[dst]])
              /\ UNCHANGED <<dirent, copyErrors, outcome, faults, wgMat>>
           \/ /\ Exists(src)
              /\ ~Exists(dst)
              /\ inodes' = Append(inodes, File(0))
              /\ dirent' = [q \in DOMAIN dirent \cup {dst} |->
                              IF q = dst THEN Len(inodes) + 1 ELSE dirent[q]]
              /\ wk' = Put(g, [g EXCEPT !.pc = "write", !.inF = dirent[src],
                                  !.outF = Len(inodes) + 1])
              /\ UNCHANGED <<copyErrors, outcome, faults, wgMat>>
           \/ /\ ~Exists(src) \/ (Exists(dst) /\ ~IsRegular(dst))
              /\ CopyReturn(g, TRUE, FALSE)
              /\ UNCHANGED <<dirent, inodes, faults>>
           \/ /\ Exists(src)
              /\ ~(Exists(dst) /\ ~IsRegular(dst))
              /\ CanFault
              /\ faults' = faults + 1
              /\ CopyReturn(g, TRUE, FALSE)
              /\ UNCHANGED <<dirent, inodes>>
    /\ UNCHANGED <<cvars, pc, todo, ranged, queue, closed, hashes,
                   hashesMutex, collisions, removeErrors, wgHash,
                   readFailed, runs, crashed, panicked>>

\* copyFileContents: io.Copy(out, in), out.Sync() and the deferred closes
WriteStep(g) ==
    /\ Alive
    /\ g.pc = "write"
    /\ \/ /\ inodes' = [inodes EXCEPT ![g.outF].content = inodes[g.inF].content]
          /\ CopyReturn(g, FALSE, FALSE)
          /\ UNCHANGED faults
       \/ /\ CanFault
          /\ faults' = faults + 1
          /\ CopyReturn(g, TRUE, FALSE)
          /\ UNCHANGED inodes
    /\ UNCHANGED <<cvars, dirent, pc, todo, ranged, queue, closed, hashes,
                   hashesMutex, collisions, removeErrors, wgHash,
                   readFailed, runs, crashed, panicked>>

\* a closure whose count of a failed os.Remove would be lost
RemoveStepUncounted(g) ==
    /\ Alive
    /\ g.pc = "remove"
    /\ LET src == g.job.path
       IN  \/ /\ Exists(src)
              /\ dirent' = [q \in DOMAIN dirent \ {src} |-> dirent[q]]
              /\ outcome' = outcome @@ (g.job :> Outcome("moved", g.dst))
              /\ UNCHANGED <<removeErrors, faults>>
           \/ /\ ~Exists(src) \/ CanFault
              /\ faults' = IF Exists(src) THEN faults + 1 ELSE faults
              /\ removeErrors' = removeErrors
              /\ outcome' = outcome @@ (g.job :> Outcome("removeerr", g.dst))
              /\ UNCHANGED dirent
    /\ JobReturn(g)
    /\ UNCHANGED <<cvars, inodes, pc, todo, ranged, queue, closed, hashes,
                   hashesMutex, collisions, copyErrors, wgHash,
                   readFailed, runs, crashed, panicked>>

\* move mode: os.Remove(sourceFile) after copyFile returned nil
RemoveStep(g) ==
    /\ Alive
    /\ g.pc = "remove"
    /\ LET src == g.job.path
       IN  \/ /\ Exists(src)
              /\ dirent' = [q \in DOMAIN dirent \ {src} |-> dirent[q]]
              /\ outcome' = outcome @@ (g.job :> Outcome("moved", g.dst))
              /\ UNCHANGED <<removeErrors, faults>>
           \/ /\ ~Exists(src) \/ CanFault
              /\ faults' = IF Exists(src) THEN faults + 1 ELSE faults
              /\ removeErrors' = removeErrors + 1
              /\ outcome' = outcome @@ (g.job :> Outcome("removeerr", g.dst))
              /\ UNCHANGED dirent
    /\ JobReturn(g)
    /\ UNCHANGED <<cvars, inodes, pc, todo, ranged, queue, closed, hashes,
                   hashesMutex, collisions, copyErrors, wgHash,
                   readFailed, runs, crashed, panicked>>

(***************************************************************************)
(* The specification of a run.                                             *)
(***************************************************************************)
WorkerStep(g) ==
    \/ Receive(g)
    \/ Lock(g)
    \/ Check(g)
    \/ Update(g)
    \/ Unlock(g)
    \/ WgDone(g)
    \/ NameStep(g)
    \/ StatStep(g)
    \/ LinkStep(g)
    \/ CreateStep(g)
    \/ WriteStep(g)
    \/ RemoveStep(g)
    \/ WorkerExit(g)

Next ==
    \/ SubmitHash
    \/ HashBarrier
    \/ SubmitMat
    \/ MatBarrier
    \/ CloseQueue
    \/ \E g \in BagToSet(wk) : WorkerStep(g)

Spec == Init /\ [][Next]_vars

(***************************************************************************)
(* A run in which a job can panic.  worker() calls job() with no recover,  *)
(* so a panic raised in a job (here by exif.Decode, in the renaming job)   *)
(* unwinds the worker goroutine and the Go runtime ends the process.       *)
(***************************************************************************)
JobPanic(g) ==
    /\ Alive
    /\ g.pc = "name"
    /\ rename
    /\ Exists(g.job.path)
    /\ ~ResolveAt(g.job.path, TRUE).timeInPath
    /\ panicked' = panicked \cup {g.job}
    /\ crashed' = TRUE
    /\ UNCHANGED <<cvars, dirent, inodes, pc, todo, ranged, queue, closed, wk, hashes,
                   hashesMutex, collisions, copyErrors, removeErrors, wgHash, wgMat,
                   faults, readFailed, runs, outcome>>

NextPanic ==
    \/ Next
    \/ \E g \in BagToSet(wk) : JobPanic(g)

SpecPanic == Init /\ [][NextPanic]_vars

(***************************************************************************)
(* The resolver on its own: getFileTime called on any base name, with any  *)
(* answers of the calls it makes.                                          *)
(***************************************************************************)
TimeNames ==
    { NameA,
      Stamp,
      Stamp \o <<"x">>,
      Stamp \o <<" ">> \o NameA,
      StampLeap \o <<".", "j", "p", "g">>,
      StampBadMonth \o <<" ">> \o NameA,
      StampBadDay \o <<" ">> \o NameA,
      StampBadHour \o <<" ">> \o NameA,
      StampNoT \o <<" ">> \o NameA,
      SubSeq(Stamp, 1, 14) }

TimeCalls ==
    [name : TimeNames, openOK : BOOLEAN, exif : {NoTime, ExifOf(1)}, statOK : BOOLEAN,
     birth : {NoTime, BirthTimeOf("s1")}, mod : {ModTimeOf}, fstatOK : BOOLEAN]

\* no run is in progress
NoRun ==
    /\ rename = FALSE
    /\ move = FALSE
    /\ simulate = FALSE
    /\ dest = "d"
    /\ crossVolume = FALSE
    /\ dirent = <<>>
    /\ inodes = <<>>
    /\ orig = [dirent |-> <<>>, inodes |-> <<>>]
    /\ todo = <<>>
    /\ InitRun

InitTime ==
    /\ NoRun
    /\ tIn \in TimeCalls
    /\ tOut = NoResult

Resolve ==
    /\ tOut = NoResult
    /\ tOut' = getFileTime(tIn.name, tIn.openOK, tIn.exif, tIn.statOK, tIn.birth,
                           tIn.mod, tIn.fstatOK)
    /\ UNCHANGED <<pvars, tIn>>

NextTime == Resolve

SpecTime == InitTime /\ [][NextTime]_vars

(***************************************************************************)
(* The naming step of the materialization closure on its own, with rename  *)
(* on: the destination file name built for a base name from the            *)
(* resolver's answer, and the name built again for the file of that name.  *)
(***************************************************************************)
NameColon == <<"a", ":", "b", ".", "j", "p", "g">>

NameBases == {NameA, NameB, NameColon, Stamp, StampBadDay \o <<" ">> \o NameA}

NameCalls ==
    [name : NameBases, openOK : BOOLEAN, exif : {NoTime, ExifOf(1)}, statOK : BOOLEAN,
     birth : {NoTime, BirthTimeOf("s1")}, mod : {ModTimeOf}, fstatOK : BOOLEAN,
     now : NowTimes, openAgain : BOOLEAN]

InitName ==
    /\ NoRun
    /\ tIn \in NameCalls
    /\ tOut = NoResult

\* lines 211-222 of the closure for a file of this base name
NamingStep(base, call, openOK) ==
    destFileName(base, TRUE,
                 getFileTime(base, openOK, call.exif, call.statOK, call.birth,
                             call.mod, call.fstatOK),
                 call.now)

Rename ==
    /\ tOut = NoResult
    /\ tOut' = [r |-> getFileTime(tIn.name, tIn.openOK, tIn.exif, tIn.statOK,
                                  tIn.birth, tIn.mod, tIn.fstatOK),
                dst |-> NamingStep(tIn.name, tIn, tIn.openOK),
                again |-> NamingStep(NamingStep(tIn.name, tIn, tIn.openOK), tIn,
                                     tIn.openAgain)]
    /\ UNCHANGED <<pvars, tIn>>

NextName == Rename

SpecName == InitName /\ [][NextName]_vars

(***************************************************************************)
(* Runs on three files, one more than the channel holds, under fair        *)
(* scheduling: the Go scheduler lets the coordinator goroutine take its    *)
(* next step when it can, and lets the pool of workers take a step when    *)
(* one of them can.  The files are s1/a.jpg, s1/"20200102T030405 b.JPG"    *)
(* and s2/a.jpg with any contents and the destination is the empty         *)
(* directory d; move, simulate and the volume of d are free, rename off.    *)
(***************************************************************************)
InitFair ==
    /\ rename = FALSE
    /\ move \in BOOLEAN
    /\ simulate \in BOOLEAN
    /\ dest = "d"
    /\ crossVolume \in BOOLEAN
    /\ \E c \in [SrcSlots -> Contents] :
         /\ dirent = InitDirent(SrcSlots, NoPre)
         /\ inodes = InitInodes(SrcSlots, c, NoPre)
    /\ orig = [dirent |-> dirent, inodes |-> inodes]
    /\ todo = WorkList(dirent, inodes, folders)
    /\ InitRun
    /\ tIn = NoCall
    /\ tOut = NoResult

\* the steps of the goroutine of run
Coordinator ==
    \/ SubmitHash
    \/ HashBarrier
    \/ SubmitMat
    \/ MatBarrier
    \/ CloseQueue

\* the steps of the goroutines of worker
Pool == \E g \in BagToSet(wk) : WorkerStep(g)

NextFair == Coordinator \/ Pool

SpecFair == InitFair /\ [][NextFair]_vars /\ WF_vars(Coordinator) /\ WF_vars(Pool)

(***************************************************************************)
(* What the properties below speak of.                                     *)
(***************************************************************************)
HashJobs == {j \in DOMAIN runs : j.kind = "hash"}

MatJobs == {j \in DOMAIN runs : j.kind = "mat"}

HashPaths == {j.path : j \in HashJobs}

\* the byte content a file had when the run started
OrigContent(path) == orig.inodes[orig.dirent[path]].content

\* the eligible files of the source directories, in submission order
Submitted == WorkList(orig.dirent, orig.inodes, folders)

\* the regular files of the source directories that carry a media extension
EligibleFiles ==
    {q \in DOMAIN orig.dirent :
       /\ \E i \in 1..Len(folders) : q[1] = folders[i]
       /\ orig.inodes[orig.dirent[q]].kind = "file"
       /\ Eligible(q[2])}

Pos(path) == CHOOSE i \in 1..Len(Submitted) : Submitted[i] = path

\* the bytes the hashing job of a file hashed
DataRead(path) == IF path \in readFailed THEN 0 ELSE OrigContent(path)

\* the hashed files whose bytes, as read, are c
Group(c) == {q \in HashPaths : DataRead(q) = c}

\* populateHash has returned
HashingDone == pc \in {"process", "close", "done"}

\* the sum of f over the set S
RECURSIVE Sum(_, _)
Sum(f, S) ==
    IF S = {} THEN 0
    ELSE LET x == CHOOSE y \in S : TRUE IN f[x] + Sum(f, S \ {x})

Extra == [c \in Contents |-> IF Group(c) = {} THEN 0 ELSE Cardinality(Group(c)) - 1]

QueueCount(j) == Cardinality({i \in 1..Len(queue) : queue[i] = j})

\* the number of workers that are in job j
Running(j) == Sum([g \in BagToSet(wk) |-> CopiesIn(g, wk)], {g \in BagToSet(wk) : g.job = j})

(***************************************************************************)
(* C1  First-seen-wins.  Once hashing is complete, the files whose bytes   *)
(* (as their hashing jobs read them) are identical have exactly one index  *)
(* entry, under their digest, its path is one of theirs, and the collision *)
(* counter holds N-1 for every such group of N files.                      *)
(***************************************************************************)
C1_FirstSeenWins ==
    HashingDone =>
      /\ \A c \in Contents :
           Group(c) # {} => /\ Digest(c) \in DOMAIN hashes
                            /\ hashes[Digest(c)] \in Group(c)
      /\ \A h \in DOMAIN hashes : \E c \in Contents : h = Digest(c) /\ Group(c) # {}
      /\ \A h1, h2 \in DOMAIN hashes : hashes[h1] = hashes[h2] => h1 = h2
      /\ collisions = Sum(Extra, Contents)

\* two files of identical content were hashed concurrently and the one
\* submitted later won the index entry
C1_Witness ==
    /\ HashingDone
    /\ readFailed = {}
    /\ collisions = 1
    /\ \E c \in Contents : \E q1, q2 \in Group(c) :
         Pos(q1) < Pos(q2) /\ hashes[Digest(c)] = q2

(***************************************************************************)
(* C2  Phase barrier.  Whenever a materialization job has been submitted,  *)
(* every hashing job has been submitted, received and has finished: none   *)
(* is queued or running, the wait group is at zero and hashesMutex is free. *)
(***************************************************************************)
C2_PhaseBarrier ==
    MatJobs # {} =>
      /\ todo = <<>>
      /\ \A j \in HashJobs : runs[j] = 1 /\ QueueCount(j) = 0
      /\ \A g \in BagToSet(wk) : g.job.kind # "hash"
      /\ wgHash = 0
      /\ hashesMutex = 0

\* a worker runs a materialization job after two hashing jobs
C2_Witness ==
    /\ Cardinality(HashJobs) >= 2
    /\ \E g \in BagToSet(wk) : g.job.kind = "mat"

(***************************************************************************)
(* C3  ReadFailure.  A file whose ReadFile failed is in no index entry, no *)
(* materialization job exists for it, and it is not counted as a duplicate: *)
(* the collision counter counts duplicates among the files read only.      *)
(***************************************************************************)
OkGroup(c) == {q \in HashPaths \ readFailed : OrigContent(q) = c}

OkExtra == [c \in Contents |-> IF OkGroup(c) = {} THEN 0 ELSE Cardinality(OkGroup(c)) - 1]

C3_ReadFailureDropped ==
    /\ \A q \in readFailed :
         /\ \A h \in DOMAIN hashes : hashes[h] # q
         /\ MatJob(q) \notin DOMAIN runs
    /\ HashingDone => collisions = Sum(OkExtra, Contents)

(***************************************************************************)
(* C4  End-to-end result.  With rename, move and simulate off, nothing in  *)
(* the destination at the start and no failed I/O call, at Done the        *)
(* destination holds exactly one file per distinct content of the eligible *)
(* source files, collisions = files - distinct contents, copyErrors = 0.   *)
(***************************************************************************)
DistinctContents == {OrigContent(q) : q \in EligibleFiles}

DestFiles == {q \in DOMAIN dirent : q[1] = dest}

C4_EndToEnd ==
    ( /\ pc = "done"
      /\ ~rename /\ ~move /\ ~simulate
      /\ {q \in DOMAIN orig.dirent : q[1] = dest} = {}
      /\ faults = 0 )
    => /\ \A c \in DistinctContents :
            Cardinality({q \in DestFiles : ContentAt(q) = c}) = 1
       /\ Cardinality(DestFiles) = Cardinality(DistinctContents)
       /\ collisions = Cardinality(EligibleFiles) - Cardinality(DistinctContents)
       /\ copyErrors = 0

(***************************************************************************)
(* C5  Move semantics.  In move mode, at Done, every survivor that was     *)
(* materialized and removed without error is gone from its source path and *)
(* its destination path holds the bytes the source had.  Stated for the    *)
(* runs in which no I/O call fails and the destination starts empty.       *)
(***************************************************************************)
C5_MoveSemantics ==
    ( /\ pc = "done" /\ move /\ ~simulate
      /\ {q \in DOMAIN orig.dirent : q[1] = dest} = {}
      /\ faults = 0 ) =>
      \A j \in DOMAIN outcome :
        outcome[j].res = "moved" =>
          /\ ~Exists(j.path)
          /\ Exists(outcome[j].dst)
          /\ ContentAt(outcome[j].dst) = OrigContent(j.path)

(***************************************************************************)
(* C6  Simulate mode.  With simulate on, the filesystem stays as it was at *)
(* the start, copyErrors and removeErrors stay 0, and every job ends       *)
(* "skipped" or "simulated" with the destination the naming rule gives for *)
(* its source; a run without simulate records destinations of that rule.  *)
(***************************************************************************)
AlreadyStamped(name) ==
    /\ Len(name) > Len(timeFormat)
    /\ ParseTime(SubSeq(name, 1, Len(timeFormat))) # NoTime

\* the time the resolver finds for a file that is as it was at the start
TimeAtStart(src) ==
    IF ExifOf(OrigContent(src)) # NoTime THEN ExifOf(OrigContent(src))
    ELSE IF BirthTimeOf(src[1]) # NoTime THEN BirthTimeOf(src[1])
    ELSE ModTimeOf

\* the times a source file can be stamped with: its own, or time.Now()
StampTimes(src) ==
    ({ExifOf(c) : c \in Contents} \cup {BirthTimeOf(src[1]), ModTimeOf} \cup NowTimes)
      \ {NoTime}

Renamed(src, t) == Join(dest, FormatTime(t) \o <<" ">> \o Base(src))

\* the destinations of src under the naming rule, for the given times
RuleDst(src, times) ==
    IF ~rename \/ AlreadyStamped(Base(src)) THEN {Join(dest, Base(src))}
    ELSE {Renamed(src, t) : t \in times}

C6_SimulateNoSideEffects ==
    /\ simulate =>
         /\ dirent = orig.dirent
         /\ inodes = orig.inodes
         /\ copyErrors = 0
         /\ removeErrors = 0
         /\ \A j \in DOMAIN outcome :
              /\ outcome[j].res \in {"skipped", "simulated"}
              /\ outcome[j].dst \in
                   RuleDst(j.path, {TimeAtStart(j.path)}
                                     \cup (IF faults > 0 THEN NowTimes ELSE {}))
    /\ ~simulate =>
         \A j \in DOMAIN outcome : outcome[j].dst \in RuleDst(j.path, StampTimes(j.path))

\* a finished simulate run, in rename and move mode, that reported two mappings,
\* one of them with a time stamp put before the name
C6_Witness ==
    /\ simulate /\ rename /\ move
    /\ pc = "done"
    /\ Cardinality({j \in DOMAIN outcome : outcome[j].res = "simulated"}) >= 2
    /\ \E j \in DOMAIN outcome : outcome[j].dst = Renamed(j.path, TimeAtStart(j.path))

(***************************************************************************)
(* C7  Same-file no-op.  The steps of a materialization whose destination  *)
(* is the same inode as its source (copyFile's os.SameFile return, and in  *)
(* move mode the step after it) count no error and leave the content and   *)
(* the link count of that inode as they were.  Steps in which an I/O call  *)
(* fails are left out.                                                     *)
(***************************************************************************)
SameFileStep(g) ==
    /\ g.job.kind = "mat"
    /\ CopiesIn(g, wk') < CopiesIn(g, wk)
    /\ faults' = faults
    /\ Exists(g.job.path)
    /\ \/ /\ g.pc = "stat"
          /\ IsRegular(g.job.path)
          /\ Exists(g.dst)
          /\ SameFile(g.job.path, g.dst)
       \/ /\ g.pc = "remove"
          /\ g.same

C7_SameFileNoOp ==
    [][\A g \in BagToSet(wk) :
         SameFileStep(g) =>
           /\ copyErrors' = copyErrors
           /\ removeErrors' = removeErrors
           /\ inodes' = inodes
           /\ NLink(dirent', dirent[g.job.path]) = NLink(dirent, dirent[g.job.path])]_vars

(***************************************************************************)
(* C8  Filename-prefix short-circuit.  As claimed: for a base name of at   *)
(* least 15 characters whose first 15 parse as YYYYMMDDTHHMMSS, the        *)
(* resolver returns that time and "already named", whatever the file is.   *)
(***************************************************************************)
Prefix(name) == SubSeq(name, 1, Len(timeFormat))

ShortCircuited ==
    /\ tOut.timeInPath
    /\ ~tOut.err
    /\ tOut.time = ParseTime(Prefix(tIn.name))
    /\ FormatTime(tOut.time) = Prefix(tIn.name)
    /\ Prefix(tIn.name) = Stamp => tOut.time = MkTime(2020, 1, 2, 3, 4, 5)

C8_PrefixShortCircuit ==
    ( /\ tOut # NoResult
      /\ Len(tIn.name) >= Len(timeFormat)
      /\ ParseTime(Prefix(tIn.name)) # NoTime )
    => ShortCircuited

(***************************************************************************)
(* C8, amended: for a base name of more than 15 characters whose first 15  *)
(* parse as YYYYMMDDTHHMMSS, the resolver returns that time and "already   *)
(* named", whatever the file's metadata and whether or not it can be       *)
(* opened.                                                                 *)
(***************************************************************************)
C8_PrefixShortCircuitLonger ==
    ( /\ tOut # NoResult
      /\ Len(tIn.name) > Len(timeFormat)
      /\ ParseTime(Prefix(tIn.name)) # NoTime )
    => ShortCircuited

\* the resolver answered from the name of a file that cannot be opened and
\* carries an embedded capture time
C8_Witness ==
    /\ tOut # NoResult
    /\ Len(tIn.name) > Len(timeFormat)
    /\ ParseTime(Prefix(tIn.name)) # NoTime
    /\ ~tIn.openOK
    /\ tIn.exif # NoTime
    /\ tOut.timeInPath

(***************************************************************************)
(* C9  Failure isolation.  A panic raised inside a job does not end the    *)
(* process: the workers and the coordinator stay alive.                    *)
(***************************************************************************)
C9_FailureIsolation == panicked # {} => Alive

(***************************************************************************)
(* C10  Exactly-once execution.  Every submitted job is either still in    *)
(* the channel, once, or was received once, by one worker; the channel     *)
(* holds nothing else; at Done every job was run once, there was one       *)
(* hashing job per eligible file and one materialization job per index     *)
(* entry, and no worker is left in a job.                                  *)
(***************************************************************************)
C10_ExactlyOnce ==
    /\ \A j \in DOMAIN runs :
         /\ runs[j] + QueueCount(j) = 1
         /\ Running(j) <= runs[j]
    /\ \A i \in 1..Len(queue) : queue[i] \in DOMAIN runs
    /\ pc = "done" =>
         /\ \A j \in DOMAIN runs : runs[j] = 1
         /\ \A g \in BagToSet(wk) : g.job = NoJob
         /\ HashPaths = EligibleFiles
         /\ {j.path : j \in MatJobs} = {hashes[h] : h \in DOMAIN hashes}
         /\ Cardinality(MatJobs) = Cardinality(DOMAIN hashes)

\* a finished run of two hashing and two materialization jobs
C10_Witness ==
    /\ pc = "done"
    /\ Cardinality(HashJobs) >= 2
    /\ Cardinality(MatJobs) >= 2

(***************************************************************************)
(* C11  Termination.  Under fair scheduling every run passes the hashing   *)
(* barrier and the materialization barrier and reaches Done: from every    *)
(* state the coordinator gets to processHashes, and then to the end of     *)
(* run, so it is never stuck on a full channel, on hashesMutex or on a     *)
(* wg.Wait().                                                              *)
(***************************************************************************)
C11_Termination ==
    /\ (pc = "populate") ~> (pc = "process")
    /\ (pc = "process") ~> (pc = "close")
    /\ <>[](pc = "done")

\* a finished run whose workers have all returned, after the coordinator
\* had to wait for room in the channel
C11_Witness ==
    /\ pc = "done"
    /\ \A g \in BagToSet(wk) : g.pc = "exited"
    /\ Cardinality(HashJobs) > Concurrency
    /\ Cardinality(MatJobs) >= 2

(***************************************************************************)
(* C12  Queue closure.  While workerJobs is closed the run is at Done:     *)
(* every file and every index entry was submitted, the channel is empty,   *)
(* both wait groups are at zero, every job was run once and no worker is   *)
(* in a job.  The channel is closed by one step, taken from the state      *)
(* after processHashes with the channel empty, and never reopened; after   *)
(* it nothing is sent or received, no job runs, and the workers stay       *)
(* blocked on the channel or have returned.                                *)
(***************************************************************************)
Quiet(pool) == \A g \in BagToSet(pool) : g.pc \in {"idle", "exited"} /\ g.job = NoJob

C12_QueueClosure ==
    /\ [](closed =>
            /\ pc = "done"
            /\ todo = <<>>
            /\ ranged = DOMAIN hashes
            /\ queue = <<>>
            /\ wgHash = 0
            /\ wgMat = 0
            /\ \A j \in DOMAIN runs : runs[j] = 1
            /\ Quiet(wk))
    /\ [][/\ closed => /\ closed'
                       /\ queue' = <<>>
                       /\ runs' = runs
                       /\ Quiet(wk')
                       /\ \A g \in BagToSet(wk) :
                            g.pc = "exited" => CopiesIn(g, wk') >= CopiesIn(g, wk)
          /\ (~closed /\ closed') => (pc = "close" /\ queue = <<>> /\ Quiet(wk))]_vars

\* the channel is closed after two materialization jobs; one worker has seen
\* it and returned, another has not yet
C12_Witness ==
    /\ closed
    /\ Cardinality(MatJobs) >= 2
    /\ \E g \in BagToSet(wk) : g.pc = "exited"
    /\ \E g \in BagToSet(wk) : g.pc = "idle"

(***************************************************************************)
(* C13  Backpressure.  The channel never holds more jobs than its          *)
(* capacity, which is the number of workers.  While it is full and the     *)
(* coordinator has a job to send, no step moves the coordinator: nothing   *)
(* is added to the channel, and the files left, the entries ranged over,   *)
(* the wait groups' additions and the phase stay as they are until a       *)
(* worker has received.                                                    *)
(***************************************************************************)
SendPending ==
    \/ pc = "populate" /\ todo # <<>>
    \/ pc = "process" /\ ranged # DOMAIN hashes

C13_Backpressure ==
    /\ [](Len(queue) <= Concurrency /\ BagCardinality(wk) = Concurrency)
    /\ [][(Len(queue) = Concurrency /\ SendPending) =>
            /\ Len(queue') <= Len(queue)
            /\ <<pc, todo, ranged>>' = <<pc, todo, ranged>>
            /\ Cardinality(DOMAIN runs') = Cardinality(DOMAIN runs)]_vars

\* the channel is full of hashing jobs, no worker has received one yet, and
\* a third file waits to be sent
C13_Witness ==
    /\ Len(queue) = Concurrency
    /\ pc = "populate"
    /\ todo # <<>>
    /\ \A j \in DOMAIN runs : runs[j] = 0

(***************************************************************************)
(* C14  Remove only after success.  A step that removes a directory entry  *)
(* is the os.Remove of the materialization job of that very path, in move  *)
(* mode, after its copyFile returned nil, and it counts no copy error.  A  *)
(* step in which a job's copyFile returns an error adds exactly one to     *)
(* copyErrors, leaves removeErrors alone and leaves the job's source entry *)
(* as it is; the source of a job that ended so is never removed.           *)
(***************************************************************************)
Removed == DOMAIN dirent \ DOMAIN dirent'

CopyFailedNow == {j \in DOMAIN outcome' \ DOMAIN outcome : outcome'[j].res = "copyerr"}

C14_RemoveOnlyAfterSuccess ==
    /\ [](\A j \in DOMAIN outcome : outcome[j].res = "copyerr" => Exists(j.path))
    /\ [][/\ \A q \in Removed :
               /\ move /\ ~simulate
               /\ Removed = {q}
               /\ MatJob(q) \in DOMAIN runs
               /\ MatJob(q) \notin DOMAIN outcome
               /\ \E g \in BagToSet(wk) : g.job = MatJob(q) /\ g.pc = "remove"
               /\ outcome'[MatJob(q)].res = "moved"
               /\ copyErrors' = copyErrors
          /\ \A j \in CopyFailedNow :
               /\ CopyFailedNow = {j}
               /\ copyErrors' = copyErrors + 1
               /\ removeErrors' = removeErrors
               /\ Exists(j.path)
               /\ j.path \in DOMAIN dirent'
               /\ dirent'[j.path] = dirent[j.path]]_vars

\* a finished move run in which one survivor failed in copyFile and kept its
\* source, and another was moved
C14_Witness ==
    /\ pc = "done"
    /\ move
    /\ copyErrors = 1
    /\ removeErrors = 0
    /\ \E j \in DOMAIN outcome : outcome[j].res = "copyerr" /\ Exists(j.path)
    /\ \E j \in DOMAIN outcome : outcome[j].res = "moved" /\ ~Exists(j.path)

(***************************************************************************)
(* C15  RemovalFailure accounting.  The step in which the os.Remove of a   *)
(* move-mode job fails, after its copyFile succeeded, adds exactly one to  *)
(* removeErrors, leaves copyErrors alone and changes nothing on the        *)
(* filesystem: the destination the job materialized is still there.  In    *)
(* every state, so also at Done, copyErrors is the number of jobs whose    *)
(* copyFile failed and removeErrors the number of jobs whose os.Remove     *)
(* failed, however the jobs interleave.                                    *)
(***************************************************************************)
RemoveFailedNow == {j \in DOMAIN outcome' \ DOMAIN outcome : outcome'[j].res = "removeerr"}

Ended(res) == {j \in DOMAIN outcome : outcome[j].res = res}

C15_RemovalFailureAccounting ==
    /\ [](/\ copyErrors = Cardinality(Ended("copyerr"))
          /\ removeErrors = Cardinality(Ended("removeerr")))
    /\ [][\A j \in RemoveFailedNow :
            /\ move
            /\ RemoveFailedNow = {j}
            /\ removeErrors' = removeErrors + 1
            /\ copyErrors' = copyErrors
            /\ dirent' = dirent
            /\ inodes' = inodes
            /\ Exists(outcome'[j].dst)
            /\ IsRegular(outcome'[j].dst)]_vars

\* a finished move run in which one job failed in copyFile and another in
\* os.Remove, its destination and its source both in place
C15_Witness ==
    /\ pc = "done"
    /\ move
    /\ copyErrors = 1
    /\ removeErrors = 1
    /\ \E j \in Ended("removeerr") : Exists(outcome[j].dst) /\ Exists(j.path)

(***************************************************************************)
(* C16  Index frozen after the barrier.  Once populateHash has returned,   *)
(* no step changes hashes or collisions: no entry is added, removed or     *)
(* given another path, up to and including Done.                           *)
(***************************************************************************)
C16_IndexFrozen ==
    [][HashingDone => (HashingDone' /\ hashes' = hashes /\ collisions' = collisions)]_vars

\* materialization has changed the filesystem, past the barrier, with an
\* index of one entry and one collision counted
C16_Witness ==
    /\ pc = "process"
    /\ collisions = 1
    /\ Cardinality(DOMAIN hashes) = 1
    /\ dirent # orig.dirent
    /\ \E g \in BagToSet(wk) : g.job.kind = "mat" /\ g.pc = "remove"

(***************************************************************************)
(* C17  Timestamp fallback chain.  For a name without a valid time prefix  *)
(* the resolver never answers "already named" and returns the first        *)
(* available of the embedded metadata time (the file can be opened and     *)
(* carries one), the birth time and the modification time (the file can be *)
(* stat'ed); it returns an error only when none of them is available.      *)
(***************************************************************************)
NoValidPrefix ==
    \/ Len(tIn.name) < Len(timeFormat)
    \/ ParseTime(Prefix(tIn.name)) = NoTime

MetadataTime == IF tIn.openOK THEN tIn.exif ELSE NoTime

\* times.Stat on the path, or Stat on the open file
CanStat == tIn.statOK \/ (tIn.openOK /\ tIn.fstatOK)

C17_FallbackChain ==
    (tOut # NoResult /\ NoValidPrefix) =>
      /\ ~tOut.timeInPath
      /\ IF MetadataTime # NoTime THEN ~tOut.err /\ tOut.time = MetadataTime
         ELSE IF tIn.statOK /\ tIn.birth # NoTime THEN ~tOut.err /\ tOut.time = tIn.birth
         ELSE IF CanStat THEN ~tOut.err /\ tOut.time = tIn.mod
         ELSE tOut.err

(***************************************************************************)
(* C18  No double-stamping.  With rename on, the destination name is the   *)
(* base name itself when the resolver answers "already named", and the     *)
(* resolved time (the current time after an error) in the layout           *)
(* YYYYMMDDTHHMMSS, a space and the base name otherwise; and the naming    *)
(* step on a file of the name it produced gives that name again.           *)
(***************************************************************************)
C18_NoDoubleStamping ==
    tOut # NoResult =>
      /\ tOut.dst = IF tOut.r.timeInPath THEN tIn.name
                    ELSE FormatTime(IF tOut.r.err THEN tIn.now ELSE tOut.r.time)
                           \o <<" ">> \o tIn.name
      /\ tOut.again = tOut.dst

(***************************************************************************)
(* C19  Source content preservation in copy mode.  With move and simulate  *)
(* off, every file of a source directory other than the destination        *)
(* directory is still there in every state of the run and holds the bytes  *)
(* it had when the run started.  Stated for the runs in which no I/O call  *)
(* fails and the destination starts empty.                                 *)
(***************************************************************************)
C19_SourcePreserved ==
    ( /\ ~move /\ ~simulate
      /\ {q \in DOMAIN orig.dirent : q[1] = dest} = {}
      /\ faults = 0 ) =>
      \A q \in DOMAIN orig.dirent :
        (/\ \E i \in 1..Len(folders) : q[1] = folders[i]
         /\ q[1] # dest
         /\ orig.inodes[orig.dirent[q]].kind = "file")
        => /\ q \in DOMAIN dirent
           /\ inodes[dirent[q]].content = OrigContent(q)

(***************************************************************************)
(* C20  Conservation of files.  In every state of the hashing phase the    *)
(* size of the index plus the collision counter is the number of hashing   *)
(* jobs that are past their check-and-insert step; once populateHash has   *)
(* returned it is the number of hashing jobs submitted, one per eligible   *)
(* file; and no step changes the path of an entry that is in the index.    *)
(***************************************************************************)
\* the hashing jobs that have run lines 192-196
Inserted ==
    {j \in HashJobs :
       /\ runs[j] = 1
       /\ \A g \in BagToSet(wk) : g.job = j => g.pc \in {"unlock", "wgdone"}}

C20_Conservation ==
    /\ [](/\ Cardinality(DOMAIN hashes) + collisions = Cardinality(Inserted)
          /\ HashingDone => /\ Inserted = HashJobs
                            /\ HashPaths = EligibleFiles
                            /\ Cardinality(HashJobs) = Cardinality(EligibleFiles))
    /\ [][\A h \in DOMAIN hashes : h \in DOMAIN hashes' /\ hashes'[h] = hashes[h]]_vars

\* in the hashing phase a job has just counted a collision against the entry
\* of an earlier job and still holds hashesMutex
C20_Witness ==
    /\ pc = "populate"
    /\ Cardinality(DOMAIN hashes) = 1
    /\ collisions = 1
    /\ \E g \in BagToSet(wk) : g.job.kind = "hash" /\ g.pc = "unlock" /\ g.ok

(***************************************************************************)
(* C21  Equal-path skip.  A materialization job whose destination path is  *)
(* its source path ends at the comparison of the two strings: no job is    *)
(* ever in copyFile or at os.Remove with its own source as destination,    *)
(* every job that ended with that destination ended "skipped" and its      *)
(* source is still there, and the step that ends such a job changes        *)
(* neither the filesystem nor copyErrors nor removeErrors, whatever the    *)
(* flags are.                                                              *)
(***************************************************************************)
\* the worker g ends its job at the comparison in this step
SkipStep(g) ==
    /\ g.job.kind = "mat"
    /\ g.pc = "name"
    /\ CopiesIn(g, wk') < CopiesIn(g, wk)
    /\ g.job \in DOMAIN outcome'
    /\ outcome'[g.job].dst = g.job.path

C21_EqualPathSkip ==
    /\ [](/\ \A g \in BagToSet(wk) :
               (g.job.kind = "mat" /\ g.pc # "name") => g.dst # g.job.path
          /\ \A j \in DOMAIN outcome :
               outcome[j].dst = j.path => /\ outcome[j].res = "skipped"
                                          /\ j.path \in DOMAIN dirent)
    /\ [][\A g \in BagToSet(wk) :
            SkipStep(g) => /\ dirent' = dirent
                           /\ inodes' = inodes
                           /\ copyErrors' = copyErrors
                           /\ removeErrors' = removeErrors]_vars

\* a run in move mode has ended with a survivor skipped because the
\* destination directory is its own directory, and the survivor is in place
C21_Witness ==
    /\ pc = "done"
    /\ move /\ ~simulate
    /\ \E j \in DOMAIN outcome :
         /\ outcome[j] = Outcome("skipped", j.path)
         /\ j.path[1] = dest
         /\ j.path \in DOMAIN dirent

====
